---- MODULE Spec2Model ----
(***************************************************************************)
(* Model of the OHTTP relay of src/src/lib.rs: the accept loop             *)
(* (ohttp_relay), the per-request dispatch (serve_ohttp_relay), the        *)
(* sanitizer (into_forward_req) and the forwarding step (forward_request). *)
(*                                                                         *)
(* Strings that the code parses (request targets) are sequences of         *)
(* one-character strings.  Option values are sequences of length 0 or 1    *)
(* (None == <<>>, Some(v) == <<v>>), Result values are records with an ok  *)
(* field.                                                                   *)
(***************************************************************************)
EXTENDS Integers, Sequences, FiniteSets, TLC

\* ------------------------------------------------------------------ bounds
\* Longest inbound header list handed to the sanitizer.
MaxHeaders == 3
\* Longest raw path-and-query text of an inbound request target.
MaxTarget == 2
\* Number of connections the listener can hand out.
MaxConns == 2
\* Number of requests a connection reads when requests are numbered.
MaxReqs == 2

\* ------------------------------------------------------- Option and Result
None == <<>>
Some(v) == <<v>>
IsSome(o) == o # <<>>
Unwrap(o) == o[1]
UnwrapOr(o, d) == IF o = <<>> THEN d ELSE o[1]

Ok(v) == [ok |-> TRUE, v |-> v]
Err(e) == [ok |-> FALSE, err |-> e]

\* ---------------------------------------------------------------- constants
\* pub static OHTTP_RELAY_HOST
OHTTP_RELAY_HOST == "0.0.0.0"
\* pub static EXPECTED_MEDIA_TYPE
EXPECTED_MEDIA_TYPE == "message/ohttp-req"

HOST == "host"
CONTENT_TYPE == "content-type"
CONTENT_LENGTH == "content-length"

Methods == {"POST", "GET", "CONNECT", "PUT"}

\* --------------------------------------------------------------- HeaderMap
\* A header map is the list of its (name, value) entries in arrival order.
\* HeaderMap::get: the first value stored under the name.
RECURSIVE HeaderGet(_, _)
HeaderGet(h, name) ==
    IF h = <<>> THEN None
    ELSE IF Head(h)[1] = name THEN Some(Head(h)[2])
    ELSE HeaderGet(Tail(h), name)

\* HeaderMap::clear
HeaderClear(h) == <<>>

\* HeaderMap::insert: replaces every value stored under the name.
HeaderInsert(h, name, value) ==
    SelectSeq(h, LAMBDA e : e[1] # name) \o << <<name, value>> >>

HeaderSet(h) == {h[i] : i \in 1..Len(h)}

\* ---------------------------------------------------- path-and-query text
PathChars == {"/", "a", "?"}
FragmentChar == "#"
\* A byte the URI grammar rejects (a space).
InvalidChar == " "
TargetChars == PathChars \cup {FragmentChar, InvalidChar}

Strings(n) == UNION {[1..k -> TargetChars] : k \in 0..n}

FirstIndex(s, ch) ==
    IF \E i \in 1..Len(s) : s[i] = ch
    THEN CHOOSE i \in 1..Len(s) : s[i] = ch /\ \A j \in 1..(i-1) : s[j] # ch
    ELSE 0

\* PathAndQuery parsing as the http crate does it: the scan stops at the
\* first '#', whose fragment is cut off; a byte outside the grammar is an
\* error; query is the index of the first '?', 0 when there is none.
ParsePathAndQuery(s) ==
    LET f == FirstIndex(s, FragmentChar)
        data == IF f = 0 THEN s ELSE SubSeq(s, 1, f - 1)
    IN  IF \E i \in 1..Len(data) : data[i] = InvalidChar
        THEN Err("InvalidUriChar")
        ELSE Ok([data |-> data, query |-> FirstIndex(data, "?")])

EmptyPathAndQuery == [data |-> <<>>, query |-> 0]

\* PathAndQuery::from_static("/")
SlashPathAndQuery == [data |-> <<"/">>, query |-> 0]

\* PathAndQuery::as_str: "/" when nothing is stored.
PqAsStr(pq) == IF pq.data = <<>> THEN <<"/">> ELSE pq.data

\* PathAndQuery::path: the text before the '?', "/" when that is empty.
PqPath(pq) ==
    LET p == IF pq.query = 0 THEN pq.data ELSE SubSeq(pq.data, 1, pq.query - 1)
    IN  IF p = <<>> THEN <<"/">> ELSE p

\* PathAndQuery::query: the text after the '?', if there is one.
PqQuery(pq) ==
    IF pq.query = 0 THEN None
    ELSE Some(SubSeq(pq.data, pq.query + 1, Len(pq.data)))

\* ---------------------------------------------------------------------- Uri
\* A Uri is [scheme, authority: Option, pq: PathAndQuery].
\* Uri::path_and_query: present unless the Uri is an authority alone.
UriPathAndQuery(uri) ==
    IF IsSome(uri.scheme) \/ ~IsSome(uri.authority) THEN Some(uri.pq) ELSE None

\* Uri::builder().scheme(s).authority(a).path_and_query(p).build()
UriBuild(scheme, authority, pqText) ==
    LET p == ParsePathAndQuery(pqText)
    IN  IF ~p.ok THEN Err("InvalidUri")
        ELSE Ok([scheme |-> Some(scheme), authority |-> Some(authority), pq |-> p.v])

ClientAuthority == "evil.example"

\* The request targets the HTTP/1.1 server layer hands over: origin-form
\* ("/..."), absolute-form ("http://evil.example" followed by nothing, a
\* path, a query or a fragment) and authority-form ("evil.example").
OriginTargets(n) ==
    {[scheme |-> None, authority |-> None, pq |-> ParsePathAndQuery(s).v] :
        s \in {t \in Strings(n) : Len(t) > 0 /\ t[1] = "/" /\ ParsePathAndQuery(t).ok}}

AbsoluteTargets(n) ==
    {[scheme |-> Some("http"), authority |-> Some(ClientAuthority),
      pq |-> ParsePathAndQuery(s).v] :
        s \in {t \in Strings(n) : (Len(t) = 0 \/ t[1] \in {"/", "?", FragmentChar})
                                   /\ ParsePathAndQuery(t).ok}}

AuthorityTarget ==
    [scheme |-> None, authority |-> Some(ClientAuthority), pq |-> EmptyPathAndQuery]

Targets(n) == OriginTargets(n) \cup AbsoluteTargets(n) \cup {AuthorityTarget}

\* ----------------------------------------------------------------- requests
\* Header entries a client can send.
InboundHeaders ==
    { <<CONTENT_TYPE, EXPECTED_MEDIA_TYPE>>, <<CONTENT_TYPE, "text/plain">>,
      <<CONTENT_LENGTH, "4">>, <<"cookie", "sid=1">>, <<HOST, ClientAuthority>> }

HeaderLists(n) == UNION {[1..k -> InboundHeaders] : k \in 0..n}

Bodies == {"DEADBEEF", "CAFE"}

\* Request<Incoming>: method, uri, headers, body (the body is a stream the
\* relay never reads; it is carried as an opaque value).
RequestsOver(targets, headerLists, bodies) ==
    [method : Methods, uri : targets, headers : headerLists, body : bodies]

SanRequests == RequestsOver(Targets(MaxTarget), HeaderLists(MaxHeaders), Bodies)

\* ------------------------------------------------------------ gateway origin
\* Configured gateway origins: with scheme and authority, with a port, an
\* authority alone, and a bare path (no authority).
GatewayConfigs ==
    { [scheme |-> Some("https"), authority |-> Some("gw.example"), pq |-> SlashPathAndQuery],
      [scheme |-> Some("http"), authority |-> Some("gw.example:8080"), pq |-> EmptyPathAndQuery],
      [scheme |-> None, authority |-> Some("gw.example"), pq |-> EmptyPathAndQuery],
      [scheme |-> None, authority |-> None, pq |-> SlashPathAndQuery] }

\* GatewayUri::new: a Uri without authority is refused; otherwise the
\* handle dereferences to the Uri it was built from.
GatewayUriNew(uri) ==
    IF IsSome(uri.authority) THEN Ok(uri) ELSE Err("MissingAuthority")

ValidGateways == {GatewayUriNew(u).v : u \in {x \in GatewayConfigs : GatewayUriNew(x).ok}}

\* -------------------------------------------------------------------- errors
\* enum Error
ErrNotFound == [kind |-> "NotFound", detail |-> ""]
ErrMethodNotAllowed == [kind |-> "MethodNotAllowed", detail |-> ""]
ErrUnsupportedMediaType == [kind |-> "UnsupportedMediaType", detail |-> ""]
ErrBadRequest(detail) == [kind |-> "BadRequest", detail |-> detail]
ErrBadGateway == [kind |-> "BadGateway", detail |-> ""]

RelayErrors ==
    {ErrNotFound, ErrMethodNotAllowed, ErrUnsupportedMediaType,
     ErrBadRequest("Invalid target uri"), ErrBadGateway}

\* A panic unwinds the task instead of returning; it is carried as a result
\* that no caller can turn into a response.
Panic(msg) == [ok |-> FALSE, err |-> [kind |-> "Panic", detail |-> msg]]
IsPanic(r) == ~r.ok /\ r.err.kind = "Panic"

\* Error::to_response: one status per variant, a minimal body.
StatusOf(kind) ==
    CASE kind = "NotFound" -> 404
      [] kind = "MethodNotAllowed" -> 405
      [] kind = "UnsupportedMediaType" -> 415
      [] kind = "BadRequest" -> 400
      [] kind = "BadGateway" -> 502

to_response(e) == [status |-> StatusOf(e.kind), headers |-> <<>>, body |-> e.detail]

\* ------------------------------------------------------------ the sanitizer
\* content_type_header != Some(EXPECTED_MEDIA_TYPE.to_owned()), negated.
MediaTypeOk_absentPasses(content_type_header) ==
    content_type_header \in {None, Some(EXPECTED_MEDIA_TYPE)}

MediaTypeOk(content_type_header) ==
    content_type_header = Some(EXPECTED_MEDIA_TYPE)

\* The header map of the forwarded request: cleared, Host inserted, and
\* Content-Length put back when it was captured.
SanitizedHeaders_notCleared(headers, content_length_header) ==
    LET hosted == HeaderInsert(headers, HOST, OHTTP_RELAY_HOST)
    IN  IF IsSome(content_length_header)
        THEN HeaderInsert(hosted, CONTENT_LENGTH, Unwrap(content_length_header))
        ELSE hosted

SanitizedHeaders_hostFromRequest(headers, content_length_header) ==
    LET hosted == HeaderInsert(HeaderClear(headers), HOST,
                               UnwrapOr(HeaderGet(headers, HOST), OHTTP_RELAY_HOST))
    IN  IF IsSome(content_length_header)
        THEN HeaderInsert(hosted, CONTENT_LENGTH, Unwrap(content_length_header))
        ELSE hosted

SanitizedHeaders(headers, content_length_header) ==
    LET hosted == HeaderInsert(HeaderClear(headers), HOST, OHTTP_RELAY_HOST)
    IN  IF IsSome(content_length_header)
        THEN HeaderInsert(hosted, CONTENT_LENGTH, Unwrap(content_length_header))
        ELSE hosted

\* req.uri().path_and_query().map_or_else(|| from_static("/"), |pq| pq.clone()),
\* as the text handed to the builder.
ReqPathAndQueryText_pathOnly(uri) ==
    LET pqo == UriPathAndQuery(uri)
    IN  PqPath(IF IsSome(pqo) THEN Unwrap(pqo) ELSE SlashPathAndQuery)

ReqPathAndQueryText(uri) ==
    LET pqo == UriPathAndQuery(uri)
    IN  PqAsStr(IF IsSome(pqo) THEN Unwrap(pqo) ELSE SlashPathAndQuery)

\* The authority of the forwarded request's target.
TargetAuthority_fromRequest(req_uri, gateway_origin) ==
    IF IsSome(req_uri.authority) THEN Unwrap(req_uri.authority)
    ELSE Unwrap(gateway_origin.authority)

TargetAuthority(req_uri, gateway_origin) == Unwrap(gateway_origin.authority)

\* fn into_forward_req(req, gateway_origin) -> Result<Request, Error>
into_forward_req_mediaTypeFirst(req, gateway_origin) ==
    LET content_type_header == HeaderGet(req.headers, CONTENT_TYPE)
        content_length_header == HeaderGet(req.headers, CONTENT_LENGTH)
    IN  IF ~MediaTypeOk(content_type_header) THEN Err(ErrUnsupportedMediaType)
        ELSE IF req.method # "POST" THEN Err(ErrMethodNotAllowed)
        ELSE IF ~IsSome(gateway_origin.authority)
        THEN Panic("Gateway origin must have an authority")
        ELSE
        LET built == UriBuild(UnwrapOr(gateway_origin.scheme, "https"),
                              TargetAuthority(req.uri, gateway_origin),
                              ReqPathAndQueryText(req.uri))
        IN  IF ~built.ok THEN Err(ErrBadRequest("Invalid target uri"))
            ELSE Ok([method |-> req.method, uri |-> built.v,
                     headers |-> SanitizedHeaders(req.headers, content_length_header),
                     body |-> req.body])

into_forward_req(req, gateway_origin) ==
    IF req.method # "POST" THEN Err(ErrMethodNotAllowed)
    ELSE
    LET content_type_header == HeaderGet(req.headers, CONTENT_TYPE)
        content_length_header == HeaderGet(req.headers, CONTENT_LENGTH)
    IN  IF ~MediaTypeOk(content_type_header)
        THEN Err(ErrUnsupportedMediaType)
        ELSE IF ~IsSome(gateway_origin.authority)
        THEN Panic("Gateway origin must have an authority")
        ELSE
        LET built == UriBuild(UnwrapOr(gateway_origin.scheme, "https"),
                              TargetAuthority(req.uri, gateway_origin),
                              ReqPathAndQueryText(req.uri))
        IN  IF ~built.ok THEN Err(ErrBadRequest("Invalid target uri"))
            ELSE Ok([method |-> req.method, uri |-> built.v,
                     headers |-> SanitizedHeaders(req.headers, content_length_header),
                     body |-> req.body])

\* ------------------------------------------------------- request dispatch
\* The match on req.method() in serve_ohttp_relay; bootstrap is the
\* connect-bootstrap / ws-bootstrap feature of the build.
Route_allToRelay(req, bootstrap_enabled) ==
    IF bootstrap_enabled /\ req.method \in {"CONNECT", "GET"} THEN "bootstrap"
    ELSE "relay"

Route_bootstrapAlways(req, bootstrap_enabled) ==
    IF req.method = "POST" THEN "relay"
    ELSE IF req.method \in {"CONNECT", "GET"} THEN "bootstrap"
    ELSE "unrouted"

Route(req, bootstrap_enabled) ==
    IF req.method = "POST" THEN "relay"
    ELSE IF bootstrap_enabled /\ req.method \in {"CONNECT", "GET"} THEN "bootstrap"
    ELSE "unrouted"

\* .unwrap_or_else(|e| e.to_response()); Ok(res)
serve_result_propagates(r) == IF r.ok THEN Ok(r.v) ELSE r

serve_result(r) == Ok(IF r.ok THEN r.v ELSE to_response(r.err))

\* client.request(req).await.map_err(|_| Error::BadGateway)
forward_request_byCause(upstream) ==
    IF upstream.ok THEN Ok(upstream.v)
    ELSE IF upstream.err = "ConnectRefused" THEN Err(ErrBadGateway)
    ELSE Err(ErrBadRequest("upstream"))

forward_request(upstream) ==
    IF upstream.ok THEN Ok(upstream.v) ELSE Err(ErrBadGateway)

\* handle_ohttp_relay after the await: the response is taken apart and put
\* together again around the boxed body.
handle_ohttp_relay_map_dropsHeaders(r) ==
    IF r.ok
    THEN Ok([status |-> r.v.status, headers |-> <<>>, body |-> r.v.body])
    ELSE r

handle_ohttp_relay_map(r) ==
    IF r.ok
    THEN Ok([status |-> r.v.status, headers |-> r.v.headers, body |-> r.v.body])
    ELSE r

\* What the gateway can answer, and how the exchange with it can fail.
UpstreamResponses ==
    { [status |-> 200, headers |-> << <<CONTENT_TYPE, "message/ohttp-res">> >>, body |-> "RES"],
      [status |-> 404, headers |-> <<>>, body |-> "gone"] }
UpstreamFailures == {"ConnectRefused", "TlsFailure", "ProtocolError"}
UpstreamOutcomes == {Ok(r) : r \in UpstreamResponses} \cup {Err(f) : f \in UpstreamFailures}

\* bootstrap::handle_ohttp_keys: a response or an Error.
KeysResponse == [status |-> 200, headers |-> <<>>, body |-> "KEYS"]
BootstrapResults == {Ok(KeysResponse)} \cup {Err(e) : e \in RelayErrors}

\* Requests arriving on the relay's connections: every method with no
\* Content-Type, a wrong one and the right one (with Content-Length), plus
\* a POST in absolute-form that carries a cookie and one in authority-form.
ConnHeaderLists ==
    { <<>>,
      << <<CONTENT_TYPE, "text/plain">> >>,
      << <<CONTENT_TYPE, EXPECTED_MEDIA_TYPE>>, <<CONTENT_LENGTH, "4">> >> }
ConnRequests ==
    RequestsOver({[scheme |-> None, authority |-> None, pq |-> SlashPathAndQuery]},
                 ConnHeaderLists, {"DEADBEEF"})
    \cup
    { [method |-> "POST",
       uri |-> [scheme |-> Some("http"), authority |-> Some(ClientAuthority),
                pq |-> [data |-> <<"/", "?">>, query |-> 2]],
       headers |-> << <<"cookie", "sid=1">>, <<CONTENT_TYPE, EXPECTED_MEDIA_TYPE>> >>,
       body |-> "DEADBEEF"],
      [method |-> "POST", uri |-> AuthorityTarget,
       headers |-> << <<HOST, ClientAuthority>> >>, body |-> "DEADBEEF"] }

\* ------------------------------------------------------------------- state
VARIABLES
    gateway_cfg,     \* the Uri ohttp_relay is started with
    bootstrap,       \* whether the build has the bootstrap feature
    relay_pc,        \* where ohttp_relay is: "start", "accepting",
                     \*   "returned_err", "returned_ok"
    gateway_origin,  \* Option of the validated Arc<GatewayUri>
    conns,           \* per connection: st ("none", "open", "failed",
                     \*   "closed", "panicked"); fwd, the request whose
                     \*   forward_request is awaited; calls, the number of
                     \*   forward_request calls made for it; seq, the
                     \*   number of requests read; fid, the number of the
                     \*   request in flight; log, the numbers of the
                     \*   requests answered, in the order of the answers
    last,            \* the latest step of serve_ohttp_relay, as observed
    numbering,       \* whether requests are numbered (seq, fid, log)
    san              \* the sanitizer applied to one drawn input

vars == <<gateway_cfg, bootstrap, relay_pc, gateway_origin, conns, last, numbering, san>>

ConnIds == 1..MaxConns

NoConn == [st |-> "none", fwd |-> None, calls |-> 0, seq |-> 0, fid |-> 0, log |-> <<>>]

\* A handler that has ended: the task and all it held are dropped.
Ended(st) == [NoConn EXCEPT !.st = st]

NoEvent ==
    [kind |-> "none", conn |-> 0, req |-> None, route |-> "", fwd |-> None,
     called |-> FALSE, calls |-> 0, id |-> 0, upstream |-> None,
     failure |-> None, result |-> None]

Init ==
    /\ gateway_cfg \in GatewayConfigs
    /\ bootstrap \in BOOLEAN
    /\ relay_pc = "start"
    /\ gateway_origin = None
    /\ conns = [c \in ConnIds |-> NoConn]
    /\ last = NoEvent
    /\ numbering = FALSE
    /\ san = [pc |-> "off"]

\* ---------------------------------------------------------------- actions
\* ohttp_relay up to the accept loop: GatewayUri::new(gateway_origin)?
OhttpRelayStart_unchecked ==
    /\ relay_pc = "start"
    /\ gateway_origin' = Some(gateway_cfg)
    /\ relay_pc' = "accepting"
    /\ UNCHANGED <<gateway_cfg, bootstrap, conns, last, numbering, san>>

OhttpRelayStart ==
    /\ relay_pc = "start"
    /\ LET g == GatewayUriNew(gateway_cfg)
       IN  IF g.ok
           THEN /\ gateway_origin' = Some(g.v)
                /\ relay_pc' = "accepting"
           ELSE /\ gateway_origin' = gateway_origin
                /\ relay_pc' = "returned_err"
    /\ UNCHANGED <<gateway_cfg, bootstrap, conns, last, numbering, san>>

\* listener.accept() yields a stream; its handler is spawned.
Accept(c) ==
    /\ relay_pc = "accepting"
    /\ conns[c].st = "none"
    /\ \A d \in ConnIds : d < c => conns[d].st # "none"
    /\ conns' = [conns EXCEPT ![c].st = "open"]
    /\ UNCHANGED <<gateway_cfg, bootstrap, relay_pc, gateway_origin, last, numbering, san>>

\* listener.accept() yields an error: the while-let ends, Ok(()) is
\* returned; the spawned handlers are neither awaited nor aborted.
AcceptError_reported ==
    /\ relay_pc = "accepting"
    /\ relay_pc' = "returned_err"
    /\ UNCHANGED <<gateway_cfg, bootstrap, gateway_origin, conns, last, numbering, san>>

AcceptError ==
    /\ relay_pc = "accepting"
    /\ relay_pc' = "returned_ok"
    /\ UNCHANGED <<gateway_cfg, bootstrap, gateway_origin, conns, last, numbering, san>>

\* The Error, if any, that a Result carries.
FailureOf(r) == IF r.ok THEN None ELSE Some(r.err)

\* http1 serve_connection hands the service one request at a time: the
\* next one is read when the response of the previous one has been returned.
ReadyForRequest_pipelined(conn) == TRUE

ReadyForRequest(conn) == conn.fwd = None

\* The handler reads a request: it is the next one of its connection.
Begin(conn) == IF numbering THEN [conn EXCEPT !.seq = @ + 1] ELSE conn

\* The handler returns the response of request number id.
Answer(conn, id) ==
    [conn EXCEPT !.fwd = None, !.calls = 0, !.fid = 0,
                 !.log = IF numbering THEN Append(@, id) ELSE @]

\* The connection after serve_ohttp_relay has returned Ok(e.to_response()):
\* to the connection layer an error response is a response like any other.
AfterErrorResponse_closes(conn) == Ended("closed")

AfterErrorResponse(conn) == conn

\* What a request handler does to the shared Arc<GatewayUri>: it only
\* borrows it.
SharedAfterRequest_rewritten(shared, req) ==
    IF IsSome(shared) /\ IsSome(req.uri.authority)
    THEN Some([Unwrap(shared) EXCEPT !.authority = req.uri.authority])
    ELSE shared

SharedAfterRequest(shared, req) == shared

\* serve_ohttp_relay on connection c, up to its return or to the await on
\* forward_request.
ServeRequest(c, req) ==
    /\ conns[c].st = "open"
    /\ ReadyForRequest(conns[c])
    /\ IsSome(gateway_origin)
    /\ numbering => conns[c].seq < MaxReqs
    /\ LET route == Route(req, bootstrap)
           begun == Begin(conns[c])
           id == begun.seq
           ev == [kind |-> "served", conn |-> c, req |-> Some(req), route |-> route,
                  fwd |-> None, called |-> FALSE, calls |-> 0, id |-> id,
                  upstream |-> None, failure |-> None, result |-> None]
       IN  IF route = "relay"
           THEN LET r == into_forward_req(req, Unwrap(gateway_origin))
                IN  IF IsPanic(r)
                    THEN /\ conns' = [conns EXCEPT ![c] = Ended("panicked")]
                         /\ last' = ev
                    ELSE IF r.ok
                    THEN /\ conns' = [conns EXCEPT ![c] =
                                        [begun EXCEPT !.fwd = Some(r.v), !.calls = 1,
                                                      !.fid = id]]
                         /\ last' = [ev EXCEPT !.fwd = Some(r.v), !.called = TRUE,
                                               !.calls = 1]
                    ELSE /\ conns' = [conns EXCEPT ![c] =
                                        AfterErrorResponse(Answer(begun, id))]
                         /\ last' = [ev EXCEPT !.failure = FailureOf(r),
                                               !.result = Some(serve_result(r))]
           ELSE IF route = "bootstrap"
           THEN \E b \in BootstrapResults :
                    /\ conns' = [conns EXCEPT ![c] =
                                   IF b.ok THEN Answer(begun, id)
                                   ELSE AfterErrorResponse(Answer(begun, id))]
                    /\ last' = [ev EXCEPT !.failure = FailureOf(b),
                                          !.result = Some(serve_result(b))]
           ELSE /\ conns' = [conns EXCEPT ![c] = AfterErrorResponse(Answer(begun, id))]
                /\ last' = [ev EXCEPT !.failure = Some(ErrNotFound),
                                      !.result = Some(serve_result(Err(ErrNotFound)))]
    /\ gateway_origin' = SharedAfterRequest(gateway_origin, req)
    /\ UNCHANGED <<gateway_cfg, bootstrap, relay_pc, numbering, san>>

\* forward_request of connection c has ended with the gateway's response or
\* with a transport failure: handle_ohttp_relay and serve_ohttp_relay return.
ForwardReturns(c, upstream) ==
    /\ LET r == handle_ohttp_relay_map(forward_request(upstream))
           answered == Answer(conns[c], conns[c].fid)
       IN  /\ conns' = [conns EXCEPT ![c] =
                          IF r.ok THEN answered ELSE AfterErrorResponse(answered)]
           /\ last' = [kind |-> "completed", conn |-> c, req |-> None, route |-> "relay",
                       fwd |-> conns[c].fwd, called |-> TRUE, calls |-> conns[c].calls,
                       id |-> conns[c].fid, upstream |-> Some(upstream),
                       failure |-> FailureOf(r), result |-> Some(serve_result(r))]
    /\ UNCHANGED <<gateway_cfg, bootstrap, relay_pc, gateway_origin, numbering, san>>

\* The awaited forward_request of connection c ends.
ForwardDone_retries(c, upstream) ==
    /\ conns[c].st = "open"
    /\ IsSome(conns[c].fwd)
    /\ IF ~upstream.ok /\ conns[c].calls < 2
       THEN /\ conns' = [conns EXCEPT ![c].calls = @ + 1]
            /\ UNCHANGED <<gateway_cfg, bootstrap, relay_pc, gateway_origin, last,
                           numbering, san>>
       ELSE ForwardReturns(c, upstream)

ForwardDone(c, upstream) ==
    /\ conns[c].st = "open"
    /\ IsSome(conns[c].fwd)
    /\ ForwardReturns(c, upstream)

\* serve_connection of connection c returns an error: it is logged and the
\* spawned task ends; a forward in flight is dropped with it.
ConnError_propagates(c) ==
    /\ conns[c].st = "open"
    /\ conns' = [conns EXCEPT ![c] = Ended("failed")]
    /\ relay_pc' = "returned_err"
    /\ UNCHANGED <<gateway_cfg, bootstrap, gateway_origin, last, numbering, san>>

ConnError(c) ==
    /\ conns[c].st = "open"
    /\ conns' = [conns EXCEPT ![c] = Ended("failed")]
    /\ UNCHANGED <<gateway_cfg, bootstrap, relay_pc, gateway_origin, last, numbering, san>>

\* The client closes connection c: serve_connection returns Ok, the task
\* ends; a forward in flight is dropped with it, and only that one, each
\* forward_request having built its own client.
ConnClose_sharedClient(c) ==
    /\ conns[c].st = "open"
    /\ conns' = [d \in ConnIds |->
                   IF d = c THEN Ended("closed")
                   ELSE [conns[d] EXCEPT !.fwd = None, !.calls = 0, !.fid = 0]]
    /\ UNCHANGED <<gateway_cfg, bootstrap, relay_pc, gateway_origin, last, numbering, san>>

ConnClose(c) ==
    /\ conns[c].st = "open"
    /\ conns' = [conns EXCEPT ![c] = Ended("closed")]
    /\ UNCHANGED <<gateway_cfg, bootstrap, relay_pc, gateway_origin, last, numbering, san>>

Next ==
    \/ OhttpRelayStart
    \/ \E c \in ConnIds : Accept(c)
    \/ AcceptError
    \/ \E c \in ConnIds, req \in ConnRequests : ServeRequest(c, req)
    \/ \E c \in ConnIds, up \in UpstreamOutcomes : ForwardDone(c, up)
    \/ \E c \in ConnIds : ConnError(c)
    \/ \E c \in ConnIds : ConnClose(c)

Spec == Init /\ [][Next]_vars

\* ------------------------------------- the relay with numbered requests
\* One build and one gateway origin; each connection reads at most MaxReqs
\* requests, numbered in the order in which they are read.
InitOrd ==
    /\ gateway_cfg = [scheme |-> Some("https"), authority |-> Some("gw.example"),
                      pq |-> SlashPathAndQuery]
    /\ bootstrap = FALSE
    /\ relay_pc = "start"
    /\ gateway_origin = None
    /\ conns = [c \in ConnIds |-> NoConn]
    /\ last = NoEvent
    /\ numbering = TRUE
    /\ san = [pc |-> "off"]

SpecOrd == InitOrd /\ [][Next]_vars

\* ------------------------------------------ the sanitizer on drawn inputs
InitSan ==
    /\ gateway_cfg \in {g \in GatewayConfigs : GatewayUriNew(g).ok}
    /\ bootstrap = FALSE
    /\ relay_pc = "start"
    /\ gateway_origin = None
    /\ conns = [c \in ConnIds |-> NoConn]
    /\ last = NoEvent
    /\ numbering = FALSE
    /\ \E req \in SanRequests :
           san = [pc |-> "in", req |-> req, gw |-> GatewayUriNew(gateway_cfg).v,
                  res |-> None]

\* into_forward_req applied to the drawn request and gateway origin.
SanApply ==
    /\ san.pc = "in"
    /\ san' = [san EXCEPT !.pc = "out", !.res = Some(into_forward_req(san.req, san.gw))]
    /\ UNCHANGED <<gateway_cfg, bootstrap, relay_pc, gateway_origin, conns, last, numbering>>

NextSan == SanApply

SpecSan == InitSan /\ [][NextSan]_vars

\* =================================================================== claims
SanDone == san.pc = "out"
SanRes == Unwrap(san.res)
Served == last.kind = "served"
ServedReq == Unwrap(last.req)
Answered == IsSome(last.result)
AnswerStatus == Unwrap(last.result).v.status
RelayStatuses == {400, 404, 405, 415, 502}

\* C1: a POST whose Content-Type (the value HeaderMap::get reads) is exactly
\* message/ohttp-req is forwarded with the header set {Host: relay host}
\* plus Content-Length, with the inbound value, exactly when the inbound
\* request carried Content-Length; nothing else of the inbound headers
\* survives, whatever they were.
C1_OutboundHeadersExact ==
    (SanDone /\ san.req.method = "POST"
       /\ HeaderGet(san.req.headers, CONTENT_TYPE) = Some(EXPECTED_MEDIA_TYPE))
    => LET cl == HeaderGet(san.req.headers, CONTENT_LENGTH)
       IN  /\ SanRes.ok
           /\ HeaderSet(SanRes.v.headers) =
                {<<HOST, OHTTP_RELAY_HOST>>}
                \cup (IF IsSome(cl) THEN {<<CONTENT_LENGTH, Unwrap(cl)>>} ELSE {})
           /\ Len(SanRes.v.headers) = Cardinality(HeaderSet(SanRes.v.headers))

\* A POST carrying a cookie, the right Content-Type and a Content-Length has
\* been sanitized.
C1_Witness ==
    /\ SanDone
    /\ san.req.method = "POST"
    /\ san.req.headers = << <<"cookie", "sid=1">>, <<CONTENT_TYPE, EXPECTED_MEDIA_TYPE>>,
                            <<CONTENT_LENGTH, "4">> >>
    /\ SanRes.ok

\* C2: a POST whose Content-Type is absent or differs from message/ohttp-req
\* is answered 415 and forward_request is not invoked for it.
C2_WrongMediaTypeIs415 ==
    (Served /\ ServedReq.method = "POST"
       /\ HeaderGet(ServedReq.headers, CONTENT_TYPE) # Some(EXPECTED_MEDIA_TYPE))
    => /\ Answered
       /\ Unwrap(last.result).ok
       /\ AnswerStatus = 415
       /\ ~last.called
       /\ last.fwd = None
       /\ conns[last.conn].fwd = None

\* A POST without Content-Type has been answered.
C2_Witness ==
    /\ Served
    /\ ServedReq.method = "POST"
    /\ HeaderGet(ServedReq.headers, CONTENT_TYPE) = None
    /\ Answered
    /\ AnswerStatus = 415

\* C3 as stated: a request whose method is not POST and that is not routed
\* to the bootstrap handler is answered 405, with no outbound call.
C3_NonPostIs405 ==
    (Served /\ ServedReq.method # "POST" /\ last.route # "bootstrap")
    => (Answered /\ AnswerStatus = 405 /\ ~last.called)

\* C3 amended: a request whose method is not POST and that is not routed to
\* the bootstrap handler is answered 404 (NotFound), with no outbound call.
C3_NonPostIs404 ==
    (Served /\ ServedReq.method # "POST" /\ last.route # "bootstrap")
    => /\ Answered
       /\ Unwrap(last.result).ok
       /\ AnswerStatus = 404
       /\ ~last.called
       /\ conns[last.conn].fwd = None

\* A PUT has been answered by a build that has the bootstrap feature.
C3_Witness ==
    /\ Served
    /\ bootstrap
    /\ ServedReq.method = "PUT"
    /\ Answered
    /\ AnswerStatus = 404

\* C4: without the bootstrap feature, GET and CONNECT are answered 404 and
\* no outbound call is made.
C4_NoBootstrapGetIs404 ==
    (Served /\ ~bootstrap /\ ServedReq.method \in {"GET", "CONNECT"})
    => /\ Answered
       /\ Unwrap(last.result).ok
       /\ AnswerStatus = 404
       /\ ~last.called
       /\ conns[last.conn].fwd = None

\* A GET has been answered by a build without the bootstrap feature.
C4_Witness ==
    /\ Served
    /\ ~bootstrap
    /\ ServedReq.method = "GET"
    /\ AnswerStatus = 404

\* C5: the forwarded URI has the path and the query of the inbound URI; when
\* the inbound URI has no path-and-query, the forwarded one is "/".
C5_PathAndQueryPreserved ==
    (SanDone /\ SanRes.ok)
    => LET inb == UriPathAndQuery(san.req.uri)
           out == UriPathAndQuery(SanRes.v.uri)
       IN  /\ IsSome(out)
           /\ IF IsSome(inb)
              THEN /\ PqPath(Unwrap(out)) = PqPath(Unwrap(inb))
                   /\ PqQuery(Unwrap(out)) = PqQuery(Unwrap(inb))
                   /\ PqAsStr(Unwrap(out)) = PqAsStr(Unwrap(inb))
              ELSE /\ PqAsStr(Unwrap(out)) = <<"/">>
                   /\ PqQuery(Unwrap(out)) = None

\* An absolute-form target with an empty path and the query "a" has been
\* forwarded.
C5_Witness ==
    /\ SanDone
    /\ SanRes.ok
    /\ san.req.uri.pq.data = <<"?", "a">>

\* C6: the forwarded URI has the gateway origin's authority and scheme
\* (https when the origin has none), whatever target or Host the client sent.
C6_TargetIsGateway ==
    (SanDone /\ SanRes.ok)
    => /\ SanRes.v.uri.authority = san.gw.authority
       /\ SanRes.v.uri.scheme = Some(UnwrapOr(san.gw.scheme, "https"))
       /\ SanRes.v.uri.authority # Some(ClientAuthority)

\* A request in absolute-form naming another host, with a Host header naming
\* it too, has been forwarded to a gateway origin that has no scheme.
C6_Witness ==
    /\ SanDone
    /\ SanRes.ok
    /\ san.req.uri.authority = Some(ClientAuthority)
    /\ HeaderGet(san.req.headers, HOST) = Some(ClientAuthority)
    /\ san.gw.scheme = None
    /\ SanRes.v.uri.scheme = Some("https")

\* C7: whatever the transport failure of the upstream exchange, the client
\* is answered 502.
C7_UpstreamFailureIs502 ==
    (last.kind = "completed" /\ ~Unwrap(last.upstream).ok)
    => /\ Answered
       /\ Unwrap(last.result).ok
       /\ AnswerStatus = 502
       /\ last.failure = Some(ErrBadGateway)

\* A forwarded request has failed on a TLS error.
C7_Witness ==
    /\ last.kind = "completed"
    /\ last.upstream = Some(Err("TlsFailure"))
    /\ AnswerStatus = 502

\* C8: a relay started with a gateway origin that has no authority never
\* enters the accept loop: no connection is accepted, no request served.
C8_InvalidOriginNeverServes ==
    ~IsSome(gateway_cfg.authority)
    => /\ relay_pc \in {"start", "returned_err"}
       /\ gateway_origin = None
       /\ \A c \in ConnIds : conns[c].st = "none"
       /\ last = NoEvent

\* ohttp_relay has returned the construction error.
C8_Witness ==
    /\ ~IsSome(gateway_cfg.authority)
    /\ relay_pc = "returned_err"

\* C9: the step in which a connection's handler ends in an error changes
\* neither the accept loop nor any other connection's handler.
C9_ConnFailureContained ==
    [][\A c \in ConnIds :
          (conns[c].st = "open" /\ conns'[c].st \in {"failed", "panicked"})
          => /\ relay_pc' = relay_pc
             /\ gateway_origin' = gateway_origin
             /\ \A d \in ConnIds \ {c} : conns'[d] = conns[d]]_vars

\* One connection has failed while the accept loop runs and another
\* connection has a forward in flight.
C9_Witness ==
    /\ relay_pc = "accepting"
    /\ \E c, d \in ConnIds :
          /\ conns[c].st = "failed"
          /\ conns[d].st = "open"
          /\ IsSome(conns[d].fwd)

\* C10: serve_ohttp_relay always returns Ok(response); every failure is one
\* of the Error variants and its response has the one status of that
\* variant, among 400, 404, 405, 415, 502; only a request whose
\* forward_request is awaited has no response yet.
C10_EveryFailureIsAResponse ==
    /\ Answered => Unwrap(last.result).ok
    /\ (Answered /\ IsSome(last.failure))
       => /\ Unwrap(last.failure) \in RelayErrors
          /\ AnswerStatus \in RelayStatuses
          /\ AnswerStatus = StatusOf(Unwrap(last.failure).kind)
    /\ (last.kind # "none" /\ ~Answered)
       => (Served /\ last.called /\ IsSome(last.fwd))

\* A failed upstream exchange has been answered.
C10_Witness ==
    /\ last.kind = "completed"
    /\ last.failure = Some(ErrBadGateway)
    /\ Answered
    /\ Unwrap(last.result).ok

\* C11: a request makes at most one call of forward_request, and exactly
\* one when it is a POST that passes the sanitizer; a call that failed is
\* not made again.
C11_AtMostOneOutboundCall ==
    /\ \A c \in ConnIds :
          /\ conns[c].calls <= 1
          /\ (conns[c].calls = 1) <=> IsSome(conns[c].fwd)
    /\ last.calls <= 1
    /\ Served =>
          ((last.calls = 1)
             <=> (ServedReq.method = "POST"
                  /\ HeaderGet(ServedReq.headers, CONTENT_TYPE) = Some(EXPECTED_MEDIA_TYPE)))
    /\ (last.kind = "completed" /\ ~Unwrap(last.upstream).ok)
          => /\ last.calls = 1
             /\ conns[last.conn].calls = 0
             /\ conns[last.conn].fwd = None

\* The one call made for a request has failed and the request is answered.
C11_Witness ==
    /\ last.kind = "completed"
    /\ last.upstream = Some(Err("ConnectRefused"))
    /\ last.calls = 1
    /\ Answered

\* C12: on each connection the k-th response returned is the response of
\* the k-th request read; a request is read only when every earlier one of
\* its connection has been answered, however long its forward takes.
\* Nothing relates the requests of different connections.
C12_ResponsesInRequestOrder ==
    \A c \in ConnIds :
       /\ conns[c].log = [k \in 1..Len(conns[c].log) |-> k]
       /\ Len(conns[c].log) <= conns[c].seq
       /\ conns[c].seq <= Len(conns[c].log) + 1
       /\ IsSome(conns[c].fwd)
            => (conns[c].fid = conns[c].seq /\ conns[c].seq = Len(conns[c].log) + 1)
       /\ ~IsSome(conns[c].fwd) => conns[c].seq = Len(conns[c].log)

\* The second request of a connection, a forwarded one, has been answered
\* after its first, while the first request of another connection is still
\* in flight.
C12_Witness ==
    /\ numbering
    /\ last.kind = "completed"
    /\ last.id = 2
    /\ conns[last.conn].log = <<1, 2>>
    /\ \E d \in ConnIds \ {last.conn} :
          /\ IsSome(conns[d].fwd)
          /\ conns[d].fid = 1
          /\ conns[d].log = <<>>

\* C13: when the upstream exchange succeeds, the client is returned the
\* gateway's response: its status, its headers and its body, unchanged.
C13_ResponsePassedThrough ==
    (last.kind = "completed" /\ Unwrap(last.upstream).ok)
    => /\ last.result = Some(Ok(Unwrap(last.upstream).v))
       /\ last.failure = None

\* The gateway's 200 response, which has a header, has been returned.
C13_Witness ==
    /\ last.kind = "completed"
    /\ Unwrap(last.upstream).ok
    /\ Unwrap(last.upstream).v.status = 200
    /\ Unwrap(last.upstream).v.headers # <<>>
    /\ Answered

\* C14: the step in which a request of connection c is answered with a relay
\* error leaves c open and ready for its next request, and changes nothing
\* else that the handling of a request reads: every other connection, the
\* gateway origin, the build and the accept loop are as they were.
C14_ErrorLeavesRelayUntouched ==
    [][\A c \in ConnIds :
          (last' # last /\ last'.conn = c /\ IsSome(last'.failure) /\ IsSome(last'.result))
          => /\ conns'[c] = [conns[c] EXCEPT !.fwd = None, !.calls = 0, !.fid = 0]
             /\ conns'[c].st = "open"
             /\ ReadyForRequest(conns'[c])
             /\ \A d \in ConnIds \ {c} : conns'[d] = conns[d]
             /\ gateway_origin' = gateway_origin
             /\ gateway_cfg' = gateway_cfg
             /\ bootstrap' = bootstrap
             /\ relay_pc' = relay_pc]_vars

\* A request has just been answered 415 on a connection that is still open,
\* while another connection has a forward in flight.
C14_Witness ==
    /\ Served
    /\ Answered
    /\ last.failure = Some(ErrUnsupportedMediaType)
    /\ conns[last.conn].st = "open"
    /\ \E d \in ConnIds \ {last.conn} : IsSome(conns[d].fwd)

\* C16: once constructed, the gateway origin is never changed by any step
\* of any handler; every forward in flight, on every connection, targets
\* its scheme and authority; and a step changes the state of at most one
\* connection.
C16_GatewayOriginImmutable ==
    /\ [][/\ IsSome(gateway_origin) => gateway_origin' = gateway_origin
          /\ gateway_cfg' = gateway_cfg
          /\ Cardinality({c \in ConnIds : conns'[c] # conns[c]}) <= 1]_vars
    /\ [](\A c \in ConnIds :
             IsSome(conns[c].fwd)
             => /\ IsSome(gateway_origin)
                /\ Unwrap(conns[c].fwd).uri.authority = Unwrap(gateway_origin).authority
                /\ Unwrap(conns[c].fwd).uri.authority = gateway_cfg.authority
                /\ Unwrap(conns[c].fwd).uri.scheme
                     = Some(UnwrapOr(gateway_cfg.scheme, "https")))

\* Two connections have different requests in flight, one of which came in
\* absolute-form naming another host.
C16_Witness ==
    \E c, d \in ConnIds :
       /\ c # d
       /\ IsSome(conns[c].fwd)
       /\ IsSome(conns[d].fwd)
       /\ conns[c].fwd # conns[d].fwd
       /\ last.conn = c
       /\ Served
       /\ ServedReq.uri.authority = Some(ClientAuthority)

\* C17: the step in which a connection is closed while its request is being
\* forwarded drops that forward and changes no other connection: their
\* forwards stay in flight.
C17_CloseAbandonsOnlyOwnForward ==
    [][\A c \in ConnIds :
          (conns[c].st = "open" /\ IsSome(conns[c].fwd) /\ conns'[c].st = "closed")
          => /\ conns'[c].fwd = None
             /\ \A d \in ConnIds \ {c} : conns'[d] = conns[d]
             /\ relay_pc' = relay_pc
             /\ gateway_origin' = gateway_origin
             /\ last' = last]_vars

\* The connection whose forward was the latest thing to start has been
\* closed with no answer, and another connection still has its forward in
\* flight.
C17_Witness ==
    /\ Served
    /\ last.called
    /\ conns[last.conn].st = "closed"
    /\ \E d \in ConnIds \ {last.conn} : conns[d].st = "open" /\ IsSome(conns[d].fwd)

\* C20: the accept loop is left only by returning Ok(()), in a step that
\* touches no connection handler; after that ohttp_relay stays returned and
\* no further connection is accepted.
C20_AcceptErrorEndsLoop ==
    [][/\ (relay_pc = "accepting" /\ relay_pc' # "accepting")
            => (relay_pc' = "returned_ok" /\ conns' = conns)
       /\ relay_pc = "returned_ok"
            => /\ relay_pc' = "returned_ok"
               /\ \A c \in ConnIds : conns[c].st = "none" => conns'[c].st = "none"]_vars

\* ohttp_relay has returned Ok(()) and a handler spawned before has a
\* request in flight, on a listener that had a connection left to hand out.
C20_Witness ==
    /\ relay_pc = "returned_ok"
    /\ \E c \in ConnIds : conns[c].st = "open" /\ IsSome(conns[c].fwd)
    /\ \E d \in ConnIds : conns[d].st = "none"

\* C15: into_forward_req checks the method first, then the Content-Type,
\* then assembles the target: a request that is not a POST gets
\* MethodNotAllowed whatever its Content-Type, a POST with a wrong or absent
\* Content-Type gets UnsupportedMediaType whatever its target, and the only
\* other error is BadRequest, which carries a detail message.
C15_ChecksInOrder ==
    SanDone
    => /\ san.req.method # "POST" => SanRes = Err(ErrMethodNotAllowed)
       /\ (san.req.method = "POST"
             /\ HeaderGet(san.req.headers, CONTENT_TYPE) # Some(EXPECTED_MEDIA_TYPE))
          => SanRes = Err(ErrUnsupportedMediaType)
       /\ (san.req.method = "POST"
             /\ HeaderGet(san.req.headers, CONTENT_TYPE) = Some(EXPECTED_MEDIA_TYPE))
          => \/ SanRes.ok
             \/ /\ SanRes.err.kind = "BadRequest"
                /\ SanRes.err.detail # ""
                /\ to_response(SanRes.err).status = 400

\* A GET whose Content-Type is wrong as well has been refused.
C15_Witness ==
    /\ SanDone
    /\ san.req.method = "GET"
    /\ HeaderGet(san.req.headers, CONTENT_TYPE) = Some("text/plain")
    /\ SanRes = Err(ErrMethodNotAllowed)

\* The request that keeps of a POST only what the claim lets two requests
\* agree on: the first Content-Type, the first Content-Length, the
\* path-and-query and the body; its target names a host of its own.
Canonical(req) ==
    LET ct == HeaderGet(req.headers, CONTENT_TYPE)
        cl == HeaderGet(req.headers, CONTENT_LENGTH)
    IN  [method |-> "POST",
         uri |-> IF IsSome(UriPathAndQuery(req.uri))
                 THEN [scheme |-> Some("http"), authority |-> Some("other.example"),
                       pq |-> req.uri.pq]
                 ELSE [scheme |-> None, authority |-> Some("other.example"),
                       pq |-> EmptyPathAndQuery],
         headers |-> (IF IsSome(ct) THEN << <<CONTENT_TYPE, Unwrap(ct)>> >> ELSE <<>>)
                     \o (IF IsSome(cl) THEN << <<CONTENT_LENGTH, Unwrap(cl)>> >> ELSE <<>>),
         body |-> req.body]

\* C18: the outcome of into_forward_req on a POST is the outcome on its
\* canonical request.  Two POST requests that agree on Content-Type,
\* Content-Length, path-and-query and body have the same canonical request,
\* hence the same outcome, whatever else differs between them.
C18_SanitizerNoninterference ==
    (SanDone /\ san.req.method = "POST")
    => SanRes = into_forward_req(Canonical(san.req), san.gw)

\* A forwarded POST that carried a cookie and a Host header and named
\* another host in its target.
C18_Witness ==
    /\ SanDone
    /\ san.req.method = "POST"
    /\ SanRes.ok
    /\ san.req.uri.authority = Some(ClientAuthority)
    /\ HeaderGet(san.req.headers, "cookie") = Some("sid=1")
    /\ HeaderGet(san.req.headers, HOST) = Some(ClientAuthority)
    /\ san.req # Canonical(san.req)

\* C19: the gateway origin that handlers are given is the value a
\* successful GatewayUri::new returned, so it has an authority, and no
\* handler has panicked on the expect in into_forward_req.
C19_ExpectNeverFails ==
    /\ \A c \in ConnIds : conns[c].st # "panicked"
    /\ IsSome(gateway_origin)
         => /\ IsSome(Unwrap(gateway_origin).authority)
            /\ GatewayUriNew(gateway_cfg) = Ok(Unwrap(gateway_origin))
    /\ (\E c \in ConnIds : conns[c].st # "none") => IsSome(gateway_origin)

\* A POST has passed the expect and is being forwarded to a gateway origin
\* that has no scheme.
C19_Witness ==
    /\ Served
    /\ last.called
    /\ gateway_cfg.scheme = None
    /\ IsSome(conns[last.conn].fwd)
====
